---- MODULE Spec2Model ----
(***************************************************************************)
(* Model of the cloudtasks Service of gcpbox (src/cloudtasks/service.go):  *)
(* the primitive CreateTask, the typed creates CreateJsonPostTask and      *)
(* CreateGetTask built on it, and the two fan-out creates                  *)
(* CreateJsonPostTaskMulti / CreateGetTaskMulti, which run one goroutine   *)
(* per input task.  One behaviour of the model is one multi-create call;   *)
(* a batch of one task is a single create.                                 *)
(*                                                                         *)
(* Time values are counted in days since 0001-01-01 (the zero time.Time);  *)
(* error values are chains (outermost first) of records.                   *)
(***************************************************************************)
EXTENDS Integers, Sequences, FiniteSets, TLC

\* ---------------------------------------------------------------- bounds
MaxTasks == 2

\* ------------------------------------------------------ inputs of a call
\* the queue of the tests
Queues ==
  {[ProjectID |-> "sinmetal-ci", Region |-> "asia-northeast1", Name |-> "gcpboxtest"]}

\* time.Time{}
ZeroTime == 0

\* the task descriptions a batch is drawn from: Name, ScheduledTime and
\* Deadline (seconds) are the fields of JsonPostTask / GetTask, BodyOK says
\* whether json.Marshal(task.Body) succeeds.  737000 is a day of 2018,
\* 3652059 is 10000-01-01, the first day past the last valid Timestamp
TaskInputs ==
  {[Name |-> "",    ScheduledTime |-> ZeroTime, Deadline |-> 1800, BodyOK |-> TRUE],
   [Name |-> "dup", ScheduledTime |-> ZeroTime, Deadline |-> 0,    BodyOK |-> TRUE],
   [Name |-> "dup", ScheduledTime |-> 737000,   Deadline |-> 1800, BodyOK |-> TRUE],
   [Name |-> "t2",  ScheduledTime |-> 3652059,  Deadline |-> 1800, BodyOK |-> TRUE],
   [Name |-> "",    ScheduledTime |-> 737000,   Deadline |-> 0,    BodyOK |-> FALSE]}

Kinds == {"JsonPost", "Get"}

\* ------------------------------------------------------------ error values
NoKV == [k \in {} |-> ""]
ErrElem(type, code, kv) == [type |-> type, Code |-> code, KV |-> kv]
NilErr == << >>

\* xerrors.Errorf("...: %w", err)
Wrap(err) == <<ErrElem("wrap", "", NoKV)>> \o err

\* a gRPC status error of the provider, and an error that carries no status
StatusErr(code) == <<ErrElem("status", code, NoKV)>>
PlainErr == <<ErrElem("plain", "", NoKV)>>

NewErrInvalidArgument(kv, err) == <<ErrElem("Error", "InvalidArgument", kv)>> \o err
NewErrAlreadyExists(kv, err) == <<ErrElem("Error", "AlreadyExists", kv)>> \o err
NewErrCreateMultiTask(kv, err) == <<ErrElem("Error", "CreateMultiTaskFailure", kv)>> \o err

\* status.FromError(err): ok and the code
StatusCode(err) ==
  IF err # NilErr /\ err[1].type = "status" THEN err[1].Code ELSE "NotAStatus"

\* xerrors.As(err, &appErr) with appErr *Error: position of the first *Error
\* of the chain, 0 when there is none
RECURSIVE AsErrorFrom(_, _)
AsErrorFrom(err, k) ==
  IF k > Len(err) THEN 0
  ELSE IF err[k].type = "Error" THEN k
  ELSE AsErrorFrom(err, k + 1)

AsError(err) == AsErrorFrom(err, 1)

\* appErr.KV[key] = val
SetKV(kv, key, val) ==
  [k \in (DOMAIN kv) \cup {key} |-> IF k = key THEN val ELSE kv[k]]

\* ----------------------------------------------------------- request build
Parent(q) ==
  "projects/" \o q.ProjectID \o "/locations/" \o q.Region \o "/queues/" \o q.Name

TaskResourceNameBare(q, taskName) == taskName

TaskResourceName(q, taskName) ==
  "projects/" \o q.ProjectID \o "/locations/" \o q.Region \o "/queues/" \o q.Name
     \o "/tasks/" \o taskName

\* ptypes.TimestampProto: seconds since 1970-01-01 (here days), valid from
\* 0001-01-01 up to and excluding 10000-01-01
UnixEpoch == 719162
MinValidSeconds == 0 - 719162
MaxValidSeconds == 2932897
TimestampProto(t) == [Seconds |-> t - UnixEpoch]
ValidTimestamp(ts) == ts.Seconds >= MinValidSeconds /\ ts.Seconds < MaxValidSeconds

IsZero(t) == t = ZeroTime

\* Task.ScheduleTime left unset
NoTimestamp == [Seconds |-> -1000000000]

\* ptypes.DurationProto; Task.DispatchDeadline left unset
DurationProto(d) == [Seconds |-> d]
NoDuration == [Seconds |-> -1]

\* the part of CreateTask before the remote call: the request, or the error
\* it returns without calling
NeedsConversionAlways(scheduledTime) == TRUE

NeedsConversion(scheduledTime) == ~IsZero(scheduledTime)

BuildRequest(q, taskName, scheduledTime, deadline) ==
  LET name == IF Len(taskName) > 0 THEN TaskResourceName(q, taskName) ELSE ""
  IN IF NeedsConversion(scheduledTime) /\ ~ValidTimestamp(TimestampProto(scheduledTime))
     THEN [ok |-> FALSE,
           Parent |-> Parent(q), Name |-> name, ScheduleTime |-> NoTimestamp,
           DispatchDeadline |-> NoDuration,
           err |-> NewErrInvalidArgument(
                     [k \in {"ScheduledTime"} |-> scheduledTime], PlainErr)]
     ELSE [ok |-> TRUE,
           Parent |-> Parent(q), Name |-> name,
           ScheduleTime |-> IF NeedsConversion(scheduledTime)
                            THEN TimestampProto(scheduledTime) ELSE NoTimestamp,
           DispatchDeadline |-> IF deadline # 0
                                THEN DurationProto(deadline) ELSE NoDuration,
           err |-> NilErr]

\* ---------------------------------------------------------------- provider
Responses == {"OK", "AlreadyExists", "Unavailable", "NonStatus"}

\* the name the provider gives a task created without one
AutoName(q, n) == Parent(q) \o "/tasks/auto" \o ToString(n)

\* the part of CreateTask after the remote call: the returned task name and
\* error for a provider answer
MapResponse(request, resp, created, ignore) ==
  IF resp = "OK" THEN [tn |-> created, err |-> NilErr]
  ELSE LET err == IF resp = "NonStatus" THEN PlainErr ELSE StatusErr(resp)
       IN IF StatusCode(err) = "AlreadyExists"
          THEN IF ignore
               THEN [tn |-> request.Name, err |-> NilErr]
               ELSE [tn |-> "",
                     err |-> NewErrAlreadyExists(
                               [k \in {"taskName"} |-> request.Name], err)]
          ELSE [tn |-> "", err |-> err]

\* CreateJsonPostTask / CreateGetTask: wrap the error of CreateTask and
\* return "" with it, else the task's Name
SingleCreateResult(r) ==
  IF r.err # NilErr THEN [tn |-> "", err |-> Wrap(r.err)] ELSE r

\* ------------------------------------------------------------------- state
VARIABLES
  kind,        \* which multi-create is running
  queue,       \* the queue argument
  tasks,       \* the tasks argument
  ignore,      \* opt.ignoreAlreadyExists after applying ops
  spawned,     \* number of goroutines the loop has started
  wg,          \* the WaitGroup counter
  pc,          \* position of each goroutine
  req,         \* the CreateTaskRequest each goroutine built
  prim,        \* (task name, err) returned by CreateTask in each goroutine
  ret,         \* (tn, err) returned by the single create of each goroutine
  answer,      \* the provider's answer to each goroutine's remote call
  finished,    \* the goroutines in the order they called wg.Done
  calls,       \* remote CreateTask calls made for each input
  results,     \* the results slice
  merr,        \* MultiError.Errors
  store,       \* task names the provider holds
  nextId,      \* provider's counter for generated names
  mainpc,      \* "loop" while spawning/waiting, "returned" after
  out          \* what the call returned

vars == <<kind, queue, tasks, ignore, spawned, wg, pc, req, prim, ret, answer,
          finished, calls, results, merr, store, nextId, mainpc, out>>

N == Len(tasks)
Units == 1..N

NoRequest == [ok |-> FALSE, Parent |-> "", Name |-> "", ScheduleTime |-> NoTimestamp,
              DispatchDeadline |-> NoDuration, err |-> NilErr]
NoReturn == [tn |-> "", err |-> NilErr]
NoOut == [results |-> << >>, err |-> "nil", errors |-> << >>]

RECURSIVE SeqsUpTo(_, _)
SeqsUpTo(S, n) ==
  IF n = 0 THEN {<< >>}
  ELSE LET shorter == SeqsUpTo(S, n - 1)
       IN shorter \cup {Append(s, x) : s \in {t \in shorter : Len(t) = n - 1}, x \in S}

Init ==
  /\ kind \in Kinds
  /\ queue \in Queues
  /\ tasks \in {s \in SeqsUpTo(TaskInputs, MaxTasks) :
                  kind = "Get" => \A i \in 1..Len(s) : s[i].BodyOK}
  /\ ignore \in BOOLEAN
  /\ spawned = 0
  /\ wg = 0
  /\ pc = [i \in 1..Len(tasks) |-> "idle"]
  /\ req = [i \in 1..Len(tasks) |-> NoRequest]
  /\ prim = [i \in 1..Len(tasks) |-> NoReturn]
  /\ ret = [i \in 1..Len(tasks) |-> NoReturn]
  /\ answer = [i \in 1..Len(tasks) |-> "none"]
  /\ finished = << >>
  /\ calls = [i \in 1..Len(tasks) |-> 0]
  /\ results = [i \in 1..Len(tasks) |-> ""]
  /\ merr = << >>
  /\ store = {}
  /\ nextId = 1
  /\ mainpc = "loop"
  /\ out = NoOut

\* ----------------------------------------------------------------- actions
\* one iteration of the loop: wg.Add(1); go func(i, task)
Spawn ==
  /\ mainpc = "loop"
  /\ spawned < N
  /\ spawned' = spawned + 1
  /\ wg' = wg + 1
  /\ pc' = [pc EXCEPT ![spawned + 1] = "create"]
  /\ UNCHANGED <<kind, queue, tasks, ignore, req, prim, ret, answer, finished,
                 calls, results, merr, store, nextId, mainpc, out>>

\* goroutine i enters the single create: json.Marshal (JsonPost only), then
\* CreateTask up to the remote call
StartCreate(i) ==
  /\ pc[i] = "create"
  /\ LET task == tasks[i]
         built == BuildRequest(queue, task.Name, task.ScheduledTime, task.Deadline)
     IN IF kind = "JsonPost" /\ ~task.BodyOK
        THEN /\ ret' = [ret EXCEPT ![i] = [tn |-> "", err |-> Wrap(PlainErr)]]
             /\ pc' = [pc EXCEPT ![i] = "returned"]
             /\ UNCHANGED <<req, prim>>
        ELSE IF ~built.ok
        THEN /\ prim' = [prim EXCEPT ![i] = [tn |-> "", err |-> built.err]]
             /\ ret' = [ret EXCEPT ![i] =
                          SingleCreateResult([tn |-> "", err |-> built.err])]
             /\ pc' = [pc EXCEPT ![i] = "returned"]
             /\ req' = [req EXCEPT ![i] = built]
        ELSE /\ req' = [req EXCEPT ![i] = built]
             /\ pc' = [pc EXCEPT ![i] = "remote"]
             /\ UNCHANGED <<prim, ret>>
  /\ UNCHANGED <<kind, queue, tasks, ignore, spawned, wg, answer, finished, calls,
                 results, merr, store, nextId, mainpc, out>>

\* where goroutine i stands after the provider answered: CreateTask returns
\* on every answer and the remote call is not made again
AfterRemoteRetryOnce(i, resp) ==
  IF resp = "Unavailable" /\ calls[i] = 0 THEN "remote" ELSE "returned"

AfterRemote(i, resp) == "returned"

\* s.taskClient.CreateTask(ctx, taskReq) and the rest of CreateTask and of
\* the single create: the provider answers resp
RemoteCreateTask(i, resp) ==
  /\ pc[i] = "remote"
  /\ resp = "OK" => req[i].Name \notin store
  /\ LET created == IF req[i].Name = "" THEN AutoName(queue, nextId) ELSE req[i].Name
     IN /\ prim' = [prim EXCEPT ![i] = MapResponse(req[i], resp, created, ignore)]
        /\ ret' = [ret EXCEPT ![i] =
                     SingleCreateResult(MapResponse(req[i], resp, created, ignore))]
        /\ store' = IF resp = "OK" THEN store \cup {created} ELSE store
        /\ nextId' = IF resp = "OK" /\ req[i].Name = "" THEN nextId + 1 ELSE nextId
  /\ calls' = [calls EXCEPT ![i] = @ + 1]
  /\ answer' = [answer EXCEPT ![i] = resp]
  /\ pc' = [pc EXCEPT ![i] = AfterRemote(i, resp)]
  /\ UNCHANGED <<kind, queue, tasks, ignore, spawned, wg, req, finished, results,
                 merr, mainpc, out>>

\* the index goroutine i uses: the parameter i of the func literal
IndexOfLast(i) == N

IndexOf(i) == i

\* whether the goroutine returns after appending the AlreadyExists error
ReturnsAfterAlreadyExistsNot == FALSE

ReturnsAfterAlreadyExists == TRUE

\* whether xerrors.As(err, &appErr) && appErr.Code == ErrAlreadyExists.Code
IsAlreadyExistsAnyError(err) == AsError(err) # 0

IsAlreadyExists(err) ==
  AsError(err) # 0 /\ err[AsError(err)].Code = "AlreadyExists"

\* the entry for a failure that is not AlreadyExists
MultiTaskEntryNone(i, task, err) == << >>

MultiTaskEntry(i, task, err) ==
  <<NewErrCreateMultiTask(
      [k \in {"index", "taskName", "URI"} |->
         IF k = "index" THEN IndexOf(i)
         ELSE IF k = "taskName" THEN task.Name ELSE "uri"], err)>>

\* the entry for an AlreadyExists failure: the *Error found in the chain,
\* with KV["index"] set
AlreadyExistsEntry(i, err) ==
  LET k == AsError(err)
      tail == SubSeq(err, k, Len(err))
  IN <<[tail EXCEPT ![1].KV = SetKV(@, "index", IndexOf(i))]>>

\* MultiError.Append, one call per entry; calls are serialized, so a call
\* is one step
MultiErrorAppend(errors, entries) == errors \o entries

\* if err != nil { ... merr.Append(...) ... }
RecordError(i) ==
  /\ pc[i] = "returned"
  /\ ret[i].err # NilErr
  /\ IF IsAlreadyExists(ret[i].err)
     THEN /\ merr' = MultiErrorAppend(
                         MultiErrorAppend(merr, AlreadyExistsEntry(i, ret[i].err)),
                         IF ReturnsAfterAlreadyExists THEN << >>
                         ELSE MultiTaskEntry(i, tasks[i], ret[i].err))
          /\ pc' = [pc EXCEPT ![i] =
                      IF ReturnsAfterAlreadyExists THEN "exit" ELSE "write"]
     ELSE /\ merr' = MultiErrorAppend(merr, MultiTaskEntry(i, tasks[i], ret[i].err))
          /\ pc' = [pc EXCEPT ![i] = "write"]
  /\ UNCHANGED <<kind, queue, tasks, ignore, spawned, wg, req, prim, ret, answer,
                 finished, calls, results, store, nextId, mainpc, out>>

\* results[i] = tn
WriteResult(i) ==
  /\ \/ pc[i] = "returned" /\ ret[i].err = NilErr
     \/ pc[i] = "write"
  /\ results' = [results EXCEPT ![IndexOf(i)] = ret[i].tn]
  /\ pc' = [pc EXCEPT ![i] = "exit"]
  /\ UNCHANGED <<kind, queue, tasks, ignore, spawned, wg, req, prim, ret, answer,
                 finished, calls, merr, store, nextId, mainpc, out>>

\* defer wg.Done()
Done(i) ==
  /\ pc[i] = "exit"
  /\ wg' = wg - 1
  /\ pc' = [pc EXCEPT ![i] = "done"]
  /\ finished' = Append(finished, i)
  /\ UNCHANGED <<kind, queue, tasks, ignore, spawned, req, prim, ret, answer, calls,
                 results, merr, store, nextId, mainpc, out>>

\* wg.Wait() lets the caller through
WaitPassesAlways == TRUE

WaitPasses == wg = 0

\* merr.ErrorOrNil()
ErrorOrNil(errors) == IF Len(errors) = 0 THEN "nil" ELSE "MultiError"

\* wg.Wait(); return results, merr.ErrorOrNil()
Return ==
  /\ mainpc = "loop"
  /\ spawned = N
  /\ WaitPasses
  /\ mainpc' = "returned"
  /\ out' = [results |-> results, err |-> ErrorOrNil(merr), errors |-> merr]
  /\ UNCHANGED <<kind, queue, tasks, ignore, spawned, wg, pc, req, prim, ret,
                 answer, finished, calls, results, merr, store, nextId>>

Next ==
  \/ Spawn
  \/ \E i \in Units : StartCreate(i)
  \/ \E i \in Units, resp \in Responses : RemoteCreateTask(i, resp)
  \/ \E i \in Units : RecordError(i)
  \/ \E i \in Units : WriteResult(i)
  \/ \E i \in Units : Done(i)
  \/ Return

Spec == Init /\ [][Next]_vars

\* ------------------------------------------------------------- properties
Returned == mainpc = "returned"

\* goroutine i has its single create behind it
HasReturned(i) == pc[i] \in {"returned", "write", "exit", "done"}

\* goroutine i called CreateTask (json.Marshal did not fail before it)
Invoked(i) ==
  /\ pc[i] \notin {"idle", "create"}
  /\ ~(kind = "JsonPost" /\ ~tasks[i].BodyOK)

\* the single create of item i failed
Failed(i) == HasReturned(i) /\ ret[i].err # NilErr

\* the entries of a list of errors that carry index i
EntriesOf(errors, i) ==
  {k \in 1..Len(errors) :
     "index" \in DOMAIN errors[k][1].KV /\ errors[k][1].KV["index"] = i}

\* C1: the results have one slot per input task, a slot that is not empty
\* holds the name the single create of its own input returned, and the
\* returned slice holds in slot i what the create of input i returned,
\* in whatever order the goroutines ran and finished.
C1_SlotsPositional ==
  /\ DOMAIN results = 1..N
  /\ \A i \in Units : results[i] # "" => HasReturned(i) /\ results[i] = ret[i].tn
  /\ Returned =>
       /\ Len(out.results) = N
       /\ \A i \in Units : out.results[i] = ret[i].tn

\* two creates succeeded with different names, the second input finished
\* first, and the call returned
C1_Witness ==
  /\ Returned
  /\ N = 2
  /\ finished = <<2, 1>>
  /\ out.results[1] # "" /\ out.results[2] # ""
  /\ out.results[1] # out.results[2]

\* C2: the error a multi-create returns is nil exactly when no single
\* create of the batch failed.
C2_NilIffNoFailure ==
  Returned => (out.err = "nil" <=> \A i \in Units : ret[i].err = NilErr)

\* a batch of two returned with no error and both slots filled
C2_Witness ==
  /\ Returned
  /\ N = 2
  /\ out.err = "nil"
  /\ \A i \in Units : out.results[i] # ""

\* C3: on return slot i is empty if the create of item i failed and is the
\* non-empty created name if it succeeded.
C3_PartialSuccess ==
  Returned =>
    \A i \in Units :
      /\ Failed(i) => out.results[i] = ""
      /\ ~Failed(i) => out.results[i] # "" /\ out.results[i] = ret[i].tn

\* C4: the call returns only when every goroutine has finished, so every
\* input has been through its single create, failed or not.
C4_ReturnsAfterAll ==
  Returned =>
    /\ wg = 0
    /\ Len(finished) = N
    /\ \A i \in Units : pc[i] = "done" /\ HasReturned(i)

\* the first item failed and was recorded before the second item made its
\* remote call and succeeded; the call returned after both
C4_Witness ==
  /\ Returned
  /\ N = 2
  /\ finished = <<1, 2>>
  /\ Failed(1)
  /\ ~Failed(2) /\ calls[2] = 1

\* C5: a CreateTask with a task name that the provider rejects as already
\* existing fails with an AlreadyExists error whose taskName is
\* projects/{P}/locations/{R}/queues/{N}/tasks/{name}; with
\* ignoreAlreadyExists it succeeds with that name.
C5_AlreadyExists ==
  \A i \in Units :
    (HasReturned(i) /\ answer[i] = "AlreadyExists" /\ tasks[i].Name # "") =>
      LET full == "projects/" \o queue.ProjectID \o "/locations/" \o queue.Region
                    \o "/queues/" \o queue.Name \o "/tasks/" \o tasks[i].Name
      IN IF ignore
         THEN prim[i] = [tn |-> full, err |-> NilErr]
         ELSE /\ prim[i].tn = ""
              /\ prim[i].err # NilErr
              /\ prim[i].err[1].type = "Error"
              /\ prim[i].err[1].Code = "AlreadyExists"
              /\ prim[i].err[1].KV["taskName"] = full

\* "dup" was submitted twice: the first was created, the second rejected
C5_Witness ==
  /\ N = 2
  /\ tasks[1].Name = "dup" /\ tasks[2].Name = "dup"
  /\ ~ignore
  /\ answer[1] = "OK" /\ prim[1].tn \in store
  /\ answer[2] = "AlreadyExists" /\ HasReturned(2)
  /\ req[2].Name = prim[1].tn

\* C6: every entry of the aggregate carries the index of a failed item; its
\* code is AlreadyExists when that item was rejected as a duplicate and
\* CreateMultiTaskFailure for any other failure; and every failed item that
\* is past its error handling has such an entry.
C6_EntryCodes ==
  /\ \A k \in 1..Len(merr) :
       LET e == merr[k][1]
       IN /\ e.type = "Error"
          /\ "index" \in DOMAIN e.KV
          /\ e.KV["index"] \in Units
          /\ Failed(e.KV["index"])
          /\ e.Code = IF answer[e.KV["index"]] = "AlreadyExists"
                      THEN "AlreadyExists" ELSE "CreateMultiTaskFailure"
  /\ \A i \in Units :
       (Failed(i) /\ pc[i] # "returned") => EntriesOf(merr, i) # {}

\* a batch returned whose first item was rejected as a duplicate and whose
\* second item failed with an InvalidArgument
C6_Witness ==
  /\ Returned
  /\ N = 2
  /\ answer[1] = "AlreadyExists" /\ Failed(1)
  /\ Failed(2) /\ AsError(prim[2].err) # 0
  /\ prim[2].err[1].Code = "InvalidArgument"
  /\ Len(out.errors) = 2

\* C7: a create that returns no error returns a non-empty task name.
C7_NonEmptyOnSuccess ==
  \A i \in Units :
    (HasReturned(i) /\ ret[i].err = NilErr) => ret[i].tn # "" /\ prim[i].tn # ""

\* C8: a non-zero scheduled time that does not convert makes CreateTask
\* return InvalidArgument carrying that value without a remote call; a zero
\* scheduled time is not converted and the request has no schedule time.
C8_ScheduledTime ==
  \A i \in Units :
    Invoked(i) =>
      LET t == tasks[i].ScheduledTime
      IN /\ (t # ZeroTime /\ ~(t >= 0 /\ t < 3652059)) =>
              /\ calls[i] = 0
              /\ answer[i] = "none"
              /\ prim[i].tn = ""
              /\ prim[i].err # NilErr
              /\ prim[i].err[1].type = "Error"
              /\ prim[i].err[1].Code = "InvalidArgument"
              /\ prim[i].err[1].KV["ScheduledTime"] = t
         /\ t = ZeroTime => req[i].ok /\ req[i].ScheduleTime = NoTimestamp
         /\ (t # ZeroTime /\ t >= 0 /\ t < 3652059) =>
              req[i].ok /\ req[i].ScheduleTime # NoTimestamp

\* one item was rejected for its scheduled time, the other had the zero
\* time and made its remote call
C8_Witness ==
  /\ N = 2
  /\ Invoked(1) /\ tasks[1].ScheduledTime = 3652059 /\ HasReturned(1)
  /\ Invoked(2) /\ tasks[2].ScheduledTime = ZeroTime /\ calls[2] = 1

\* C9 as stated: every CreateTask that has returned made one remote call.
C9_OneCallEach ==
  \A i \in Units : (Invoked(i) /\ HasReturned(i)) => calls[i] = 1

\* C9 amended: a CreateTask never makes more than one remote call, whatever
\* the provider answers; one that has returned made exactly one, except
\* that it made none when the scheduled time did not convert; an item whose
\* body does not serialize never reaches CreateTask and makes none.
C9_AtMostOneCall ==
  \A i \in Units :
    /\ calls[i] <= 1
    /\ (Invoked(i) /\ HasReturned(i)) => calls[i] = IF req[i].ok THEN 1 ELSE 0
    /\ ~Invoked(i) => calls[i] = 0

\* the provider answered Unavailable to one item and AlreadyExists to the
\* other, and the call returned with one remote call made for each
C9_Witness ==
  /\ Returned
  /\ N = 2
  /\ answer[1] = "Unavailable" /\ calls[1] = 1
  /\ answer[2] = "AlreadyExists" /\ calls[2] = 1

\* C10: on return the aggregate has exactly one entry for each failed item,
\* carrying that item's index, and no other entry.
C10_OneEntryPerFailure ==
  Returned =>
    /\ Len(out.errors) = Cardinality({i \in Units : Failed(i)})
    /\ \A i \in Units :
         Cardinality(EntriesOf(out.errors, i)) = IF Failed(i) THEN 1 ELSE 0

\* both items failed and the second item's entry was appended first
C10_Witness ==
  /\ Returned
  /\ N = 2
  /\ Failed(1) /\ Failed(2)
  /\ Len(out.errors) = 2
  /\ out.errors[1][1].KV["index"] = 2
  /\ out.errors[2][1].KV["index"] = 1
====
